---------------------------- MODULE Spec2Model ----------------------------
(***************************************************************************)
(* Miller-Rabin prime tester: the native-width program (src/unnamed/       *)
(* part_000) and the multi-word program (the 1024-bit generator).          *)
(*                                                                         *)
(* Machine widths are scaled: `unsigned long long` has WordBits bits, a    *)
(* limb has LimbBits bits and a bigint has WORDS_COUNT limbs.  Every       *)
(* machine operation is taken modulo its width, as the C code does.        *)
(***************************************************************************)
EXTENDS Integers, Sequences, FiniteSets, TLC

\* ------------------------------------------------------------------ widths
\* width of `ull` (64 in the source)
WordBits == 17
\* bit length asked of generate_30bit_prime (30 in the source)
Bits == 16
\* width of one limb, `unsigned int` (32 in the source); every prime of the
\* table fits in one limb
LimbBits == 8
\* limbs per bigint1024 (32 in the source)
WORDS_COUNT == 2
\* Miller-Rabin rounds asked by both programs
Rounds == 10

Word == 2 ^ WordBits
LimbBase == 2 ^ LimbBits
BigBits == LimbBits * WORDS_COUNT
BigWord == 2 ^ BigBits

small_primes ==
  << 2,3,5,7,11,13,17,19,23,29,
     31,37,41,43,47,53,59,61,67,71,
     73,79,83,89,97,101,103,107,109,113,
     127,131,137,139,149,151,157,163,167,173,
     179,181,191,193,197,199 >>
small_primes_count == Len(small_primes)

\* ------------------------------------------------- reference arithmetic
\* (a*b) mod n over the unbounded integers, by Horner's rule on the bits of
\* b, so that no intermediate value leaves TLC's integers.
RefMulModBits[a \in Nat, b \in Nat, n \in Nat] ==
  IF b = 0 THEN 0
  ELSE (2 * RefMulModBits[a, b \div 2, n] + (b % 2) * (a % n)) % n

RefMulMod(a, b, n) == RefMulModBits[a, b, n]

\* a^e mod n over the unbounded integers, by the bits of e.
RefSquare[h \in Nat, n \in Nat] == RefMulModBits[h, h, n]

RefPowModBits[a \in Nat, e \in Nat, n \in Nat] ==
  IF e = 0 THEN 1 % n
  ELSE RefMulModBits[RefSquare[RefPowModBits[a, e \div 2, n], n],
                     IF e % 2 = 1 THEN a ELSE 1, n]

RefPowMod(a, e, n) == RefPowModBits[a, e, n]

\* Primality of a machine word by trial division up to its square root.
RefIsPrime(n) ==
  n >= 2 /\ \A d \in 2 .. 2 ^ ((WordBits + 1) \div 2) : d * d > n \/ n % d # 0

\* --------------------------------------------------- native arithmetic
\* The while loop of mulmod: one application is one iteration.  `wrapped`
\* records whether `res += a` or `a <<= 1` left the machine word.
mulmod_loop[res \in Nat, a \in Nat, b \in Nat, mod \in Nat, wrapped \in BOOLEAN] ==
  IF b = 0 THEN [res |-> res % mod, wrapped |-> wrapped]
  ELSE LET odd  == (b % 2 = 1)
           sum  == IF odd THEN res + a ELSE res
           res1 == sum % Word
           res2 == IF odd /\ res1 >= mod THEN res1 - mod ELSE res1
           dbl  == 2 * a
           a1   == dbl % Word
           a2   == IF a1 >= mod THEN a1 - mod ELSE a1
       IN mulmod_loop[res2, a2, b \div 2, mod,
                      wrapped \/ sum >= Word \/ dbl >= Word]

mulmod_run(a, b, mod) == mulmod_loop[0, a % mod, b, mod, FALSE]

mulmod(a, b, mod) == mulmod_run(a, b, mod).res

\* The while loop of powmod.
powmod_loop[res \in Nat, base \in Nat, exp \in Nat, mod \in Nat] ==
  IF exp = 0 THEN res
  ELSE powmod_loop[IF exp % 2 = 1 THEN mulmod(res, base, mod) ELSE res,
                   mulmod(base, base, mod), exp \div 2, mod]

powmod(base, exp, mod) == powmod_loop[1, base % mod, exp, mod]

\* Miller-Rabin witness test for base a: 1 passes, 0 proves n composite.
RECURSIVE factor_twos(_, _)
factor_twos(d, s) ==
  IF d % 2 = 0 /\ d > 0 THEN factor_twos(d \div 2, s + 1)
  ELSE [d |-> d, s |-> s]

RECURSIVE witness_squares(_, _, _, _)
witness_squares(x, r, s, n) ==
  IF r >= s THEN 0
  ELSE LET x1 == mulmod(x, x, n)
       IN IF x1 = n - 1 THEN 1 ELSE witness_squares(x1, r + 1, s, n)

witness_from(x, s, n) ==
  IF x = 1 \/ x = n - 1 THEN 1 ELSE witness_squares(x, 1, s, n)

miller_rabin_witness(n, a) ==
  IF a % n = 0 THEN 1
  ELSE LET ds == factor_twos(n - 1, 0)
       IN witness_from(powmod(a, ds.d, n), ds.s, n)

\* A sieve loop that rejects on divisibility before looking for the exact
\* match.
RECURSIVE sieve_divides_first(_, _)
sieve_divides_first(m, k) ==
  IF k > small_primes_count THEN "none"
  ELSE IF m % small_primes[k] = 0 THEN "composite"
  ELSE sieve_divides_first(m, k + 1)

\* The small-prime loop that opens is_probable_prime and
\* is_probable_prime_with_print: "prime" on an exact match, "composite" on
\* a proper multiple, "none" when the table is exhausted.
RECURSIVE sieve_scan(_, _)
sieve_scan(n, i) ==
  IF i > small_primes_count THEN "none"
  ELSE IF small_primes[i] = n THEN "prime"
  ELSE IF n % small_primes[i] = 0 THEN "composite"
  ELSE sieve_scan(n, i + 1)

\* The filter loop of generate_30bit_prime and check_input_hex: `divisible`.
search_divisible(candidate) == sieve_scan(candidate, 1) = "composite"

\* rand_ull reducing modulo max + 1: a result in [0, max].
rand_ull_inclusive(max, r) == r % (max + 1)

\* rand_ull(max) for the raw value r built from the rand32() calls.
rand_ull(max, r) == IF max = 0 THEN 0 ELSE r % max

\* `1ULL << k`: defined for k < WordBits; a shift by the width or more is
\* undefined, and builds either shift everything out or mask the count.
shl_one_outcomes(k) ==
  IF k < WordBits THEN {2 ^ k} ELSE {0, 2 ^ (k % WordBits)}

\* gen_random_odd(bits) for raw random value r; hi and top are the outcomes
\* of the two shifts.
gen_random_odd_with(bits, r, hi, top) ==
  IF bits < 2 THEN 3
  ELSE LET range == (top - hi) % Word
           v     == (rand_ull(range, r) + hi) % Word
       IN IF v % 2 = 1 THEN v ELSE v + 1

gen_random_odd_outcomes(bits, r) ==
  IF bits < 2 THEN {3}
  ELSE { gen_random_odd_with(bits, r, hi, top) :
           hi \in shl_one_outcomes(bits - 1), top \in shl_one_outcomes(bits) }

\* The base handed to the witness test by is_probable_prime.
witness_base(n, r) == (2 + rand_ull((n - 3) % Word, r)) % Word

\* The base handed to the witness test by is_probable_prime_with_print.
witness_base_print(n, r) == IF n > 4 THEN witness_base(n, r) ELSE 2

\* --------------------------------------------------------------- bigint
\* A bigint1024 is its array of limbs, least significant first: words[i] of
\* the source is x[i + 1].
Limbs == 1 .. WORDS_COUNT

RECURSIVE limbs_value(_, _)
limbs_value(x, i) ==
  IF i > Len(x) THEN 0 ELSE x[i] + LimbBase * limbs_value(x, i + 1)

\* The integer a limb array denotes, and the limb array of an integer.
BigValue(x) == limbs_value(x, 1)
BigOf(v) == [i \in Limbs |-> (v \div (LimbBase ^ (i - 1))) % LimbBase]

bigint_zero == [i \in Limbs |-> 0]

bigint_set_u32(val) == [i \in Limbs |-> IF i = 1 THEN val % LimbBase ELSE 0]

bigint_is_zero(x) == \A i \in Limbs : x[i] = 0

bigint_is_one(x) == x[1] = 1 /\ \A i \in Limbs : i > 1 => x[i] = 0

bigint_is_even(x) == x[1] % 2 = 0

RECURSIVE bigint_compare_from(_, _, _)
bigint_compare_from(x, y, i) ==
  IF i < 1 THEN 0
  ELSE IF x[i] > y[i] THEN 1
  ELSE IF x[i] < y[i] THEN -1
  ELSE bigint_compare_from(x, y, i - 1)

bigint_compare(x, y) == bigint_compare_from(x, y, WORDS_COUNT)

bigint_gte(x, y) == bigint_compare(x, y) >= 0

\* Shift by one bit; the bit leaving a limb enters its neighbour, the bit
\* leaving the array is lost.
RECURSIVE bigint_shl_from(_, _, _, _)
bigint_shl_from(x, i, carry, c) ==
  IF i > WORDS_COUNT THEN c
  ELSE bigint_shl_from(x, i + 1, x[i] \div (LimbBase \div 2),
                       Append(c, ((2 * x[i]) % LimbBase) + carry))

bigint_shl_one(x) == bigint_shl_from(x, 1, 0, << >>)

RECURSIVE bigint_shr_from(_, _, _)
bigint_shr_from(x, i, c) ==
  IF i > WORDS_COUNT THEN c
  ELSE bigint_shr_from(x, i + 1,
                       Append(c, (x[i] \div 2)
                                 + (IF i < WORDS_COUNT
                                    THEN (x[i + 1] % 2) * (LimbBase \div 2)
                                    ELSE 0)))

bigint_shr_one(x) == bigint_shr_from(x, 1, << >>)

\* c = a + b limb by limb; the state is <<limbs so far, carry>>.
RECURSIVE bigint_add_from(_, _, _, _, _)
bigint_add_from(x, y, i, sum, c) ==
  IF i > WORDS_COUNT THEN [limbs |-> c, carry |-> sum]
  ELSE bigint_add_from(x, y, i + 1, (sum + x[i] + y[i]) \div LimbBase,
                       Append(c, (sum + x[i] + y[i]) % LimbBase))

bigint_add(x, y) == bigint_add_from(x, y, 1, 0, << >>).limbs

\* c = a - b limb by limb with borrow; wraps when a < b.
RECURSIVE bigint_sub_from(_, _, _, _, _)
bigint_sub_from(x, y, i, borrow, c) ==
  IF i > WORDS_COUNT THEN c
  ELSE bigint_sub_from(x, y, i + 1,
                       IF x[i] - y[i] - borrow < 0 THEN 1 ELSE 0,
                       Append(c, (x[i] - y[i] - borrow) % LimbBase))

bigint_sub(x, y) == bigint_sub_from(x, y, 1, 0, << >>)

\* Schoolbook multiply into temp[0 .. 2*WORDS_COUNT-1] (temp[k] of the
\* source is t[k + 1]).
RECURSIVE bigint_mul_row(_, _, _, _, _, _)
bigint_mul_row(x, y, i, j, carry, t) ==
  IF j > WORDS_COUNT THEN [t EXCEPT ![i + WORDS_COUNT] = carry]
  ELSE bigint_mul_row(x, y, i, j + 1,
                      (x[i] * y[j] + t[i + j - 1] + carry) \div LimbBase,
                      [t EXCEPT ![i + j - 1] =
                          (x[i] * y[j] + t[i + j - 1] + carry) % LimbBase])

RECURSIVE bigint_mul_rows(_, _, _, _)
bigint_mul_rows(x, y, i, t) ==
  IF i > WORDS_COUNT THEN t
  ELSE bigint_mul_rows(x, y, i + 1, bigint_mul_row(x, y, i, 1, 0, t))

bigint_mul_temp(x, y) ==
  bigint_mul_rows(x, y, 1, [k \in 1 .. 2 * WORDS_COUNT |-> 0])

\* The copy that ends bigint_mul keeps the low WORDS_COUNT limbs of temp.
bigint_mul_keep(t) == [i \in Limbs |-> t[i]]

bigint_mul(x, y) == bigint_mul_keep(bigint_mul_temp(x, y))

\* bigint_mod_mul.  The first loop doubles n_shifted while it is below rem;
\* once n_shifted is zero it stays zero and below rem, and the loop never
\* ends.  The second loop subtracts and halves, shift + 1 times.  A call
\* that never returns yields Hang in place of a limb array.
Hang == << >>

RECURSIVE mod_mul_align(_, _, _)
mod_mul_align(rem, n_shifted, shift) ==
  IF bigint_compare(n_shifted, rem) >= 0
    THEN [hang |-> FALSE, n_shifted |-> n_shifted, shift |-> shift]
  ELSE IF bigint_is_zero(n_shifted)
    THEN [hang |-> TRUE, n_shifted |-> n_shifted, shift |-> shift]
  ELSE mod_mul_align(rem, bigint_shl_one(n_shifted), shift + 1)

RECURSIVE mod_mul_reduce(_, _, _)
mod_mul_reduce(rem, n_shifted, shift) ==
  IF shift < 0 THEN rem
  ELSE mod_mul_reduce(IF bigint_compare(rem, n_shifted) >= 0
                        THEN bigint_sub(rem, n_shifted) ELSE rem,
                      bigint_shr_one(n_shifted), shift - 1)

mod_mul_from(prod, al) ==
  IF al.hang THEN Hang ELSE mod_mul_reduce(prod, al.n_shifted, al.shift)

\* The reduction of bigint_mod_mul applied to the product it is handed.
mod_mul_of(prod, n) == mod_mul_from(prod, mod_mul_align(prod, n, 0))

bigint_mod_mul(x, y, n) == mod_mul_of(bigint_mul(x, y), n)

\* bigint_mod_exp: square and multiply; a hang inside is a hang.
mod_exp_next(result, b, e, mod) ==
  IF e[1] % 2 = 1 THEN bigint_mod_mul(result, b, mod) ELSE result

RECURSIVE mod_exp_loop(_, _, _, _)

\* The rest of one iteration once the conditional multiply has produced
\* `result`: square the base, halve the exponent, loop.
mod_exp_square(result, b, e, mod) ==
  mod_exp_loop(result,
               IF result = Hang THEN Hang ELSE bigint_mod_mul(b, b, mod),
               bigint_shr_one(e), mod)

mod_exp_loop(result, b, e, mod) ==
  IF result = Hang \/ b = Hang THEN Hang
  ELSE IF bigint_is_zero(e) THEN result
  ELSE mod_exp_square(mod_exp_next(result, b, e, mod), b, e, mod)

bigint_mod_exp(base, exp, mod) == mod_exp_loop(bigint_set_u32(1), base, exp, mod)

\* a mod p by Horner's rule from the top limb down.
RECURSIVE small_rem_from(_, _, _, _)
small_rem_from(x, p, i, rem) ==
  IF i < 1 THEN rem
  ELSE small_rem_from(x, p, i - 1, (rem * LimbBase + x[i]) % p)

bigint_divisible_by_small_prime(x, p) == small_rem_from(x, p, WORDS_COUNT, 0) = 0

\* Repeated subtraction `while (temp >= m) temp -= m`, counting the
\* subtractions; with m = 0 the loop never ends.
RECURSIVE subtract_down(_, _, _)
subtract_down(temp, m, iters) ==
  IF bigint_compare(temp, m) < 0
    THEN [hang |-> FALSE, temp |-> temp, iters |-> iters]
  ELSE IF bigint_is_zero(m)
    THEN [hang |-> TRUE, temp |-> temp, iters |-> iters]
  ELSE subtract_down(bigint_sub(temp, m), m, iters + 1)

\* `while (bigint_is_even(&d)) { shr; s++; }`: never ends on d = 0.
RECURSIVE big_factor_twos(_, _)
big_factor_twos(d, s) ==
  IF ~bigint_is_even(d) THEN [hang |-> FALSE, d |-> d, s |-> s]
  ELSE IF bigint_is_zero(d) THEN [hang |-> TRUE, d |-> d, s |-> s]
  ELSE big_factor_twos(bigint_shr_one(d), s + 1)

WitnessHang == [hang |-> TRUE, pass |-> 0]
WitnessVerdict(p) == [hang |-> FALSE, pass |-> p]

RECURSIVE big_witness_squares(_, _, _, _, _)

\* The body of the squaring loop once x has been squared.
big_witness_squared(x, r, s, n, n_minus_1) ==
  IF x = Hang THEN WitnessHang
  ELSE IF bigint_compare(x, n_minus_1) = 0 THEN WitnessVerdict(1)
  ELSE big_witness_squares(x, r + 1, s, n, n_minus_1)

big_witness_squares(x, r, s, n, n_minus_1) ==
  IF r >= s THEN WitnessVerdict(0)
  ELSE big_witness_squared(bigint_mod_mul(x, x, n), r, s, n, n_minus_1)

big_witness_from(x, s, n, n_minus_1) ==
  IF x = Hang THEN WitnessHang
  ELSE IF bigint_is_one(x) \/ bigint_compare(x, n_minus_1) = 0
    THEN WitnessVerdict(1)
  ELSE big_witness_squares(x, 1, s, n, n_minus_1)

big_witness_decomposed(n, a, ds) ==
  IF ds.hang THEN WitnessHang
  ELSE big_witness_from(bigint_mod_exp(a, ds.d, n), ds.s, n,
                        bigint_sub(n, bigint_set_u32(1)))

\* The verdict of the witness test once a < n.
big_witness_reduced(n, a) ==
  big_witness_decomposed(n, a,
                         big_factor_twos(bigint_sub(n, bigint_set_u32(1)), 0))

with_base(verdict, a) == [hang |-> verdict.hang, pass |-> verdict.pass, a |-> a]

big_witness_after(n, a, red) ==
  IF red.hang THEN with_base(WitnessHang, a)
  ELSE IF bigint_is_zero(red.temp) THEN with_base(WitnessVerdict(1), a)
  ELSE with_base(big_witness_reduced(n, red.temp), red.temp)

\* miller_rabin_witness_1024(n, a): the verdict and the value the caller's
\* `a` holds on return (the reduced value is copied back through the cast).
miller_rabin_witness_1024(n, a) ==
  IF bigint_compare(a, n) >= 0
    THEN big_witness_after(n, a, subtract_down(a, n, 0))
  ELSE with_base(big_witness_reduced(n, a), a)

\* bigint_rand_range(a, n) for the raw array bigint_rand produced.
rand_range_from(red) ==
  [hang |-> red.hang, a |-> bigint_add(red.temp, bigint_set_u32(2)),
   iters |-> red.iters]

bigint_rand_range(n, raw) ==
  rand_range_from(subtract_down(raw, bigint_sub(n, bigint_set_u32(3)), 0))

set_bit(limb, bit) == IF (limb \div bit) % 2 = 1 THEN limb ELSE limb + bit

\* bigint_rand_odd_1024 for the raw array bigint_rand produced.
force_top(raw) ==
  [raw EXCEPT ![WORDS_COUNT] = set_bit(raw[WORDS_COUNT], LimbBase \div 2)]

force_odd(x) == [x EXCEPT ![1] = set_bit(x[1], 1)]

bigint_rand_odd_1024(raw) == force_odd(force_top(raw))

\* The small-prime loop that opens is_probable_prime_1024.
RECURSIVE big_sieve_scan(_, _)
big_sieve_scan(n, i) ==
  IF i > small_primes_count THEN "none"
  ELSE IF bigint_divisible_by_small_prime(n, small_primes[i])
    THEN IF bigint_compare(n, bigint_set_u32(small_primes[i])) = 0
           THEN "prime" ELSE "composite"
  ELSE big_sieve_scan(n, i + 1)

\* The filter loop of generate_1024bit_prime: `divisible`.
big_search_divisible(candidate) ==
  \E i \in 1 .. small_primes_count :
    bigint_divisible_by_small_prime(candidate, small_primes[i])

\* ------------------------------------------------------------ the PRNG
\* rand() is the C library's: a linear congruential generator whose state
\* srand() sets.  Free stands for a generator about which nothing is
\* assumed: each call may return any value of the sample.
Free == -1

rand_next(state) == (75 * state + 74) % 65537

\* the bits of one rand() call that rand32() keeps (16 in the source)
ChunkBits == WordBits \div 4
rand_chunk(state) == state % (2 ^ ChunkBits)

\* rand32(): two rand() calls; the state after them and the value.
rand32(state) ==
  [state |-> rand_next(rand_next(state)),
   val   |-> rand_chunk(rand_next(state)) * (2 ^ ChunkBits)
             + rand_chunk(rand_next(rand_next(state)))]

\* The raw value rand_ull() reduces: two rand32() calls.
rand_ull_raw(state) ==
  [seed |-> rand32(rand32(state).state).state,
   r    |-> rand32(state).val * (2 ^ (2 * ChunkBits))
            + rand32(rand32(state).state).val]

\* bounds of the samples
MaxRand == 5
MaxInput == 212
MaxBigInput == 200
MaxArg == 3
MaxAttempts == 3
MaxSeed == 316
MaxNow == 2
\* generate_1024bit_prime reseeds every 1000 attempts
ReseedEvery == 2
\* a base handed to a witness test alone is below (MaxQuot + 1) * n
MaxQuot == 2

\* Raw values of a free generator: small ones, the one that makes the
\* square of the first prime above the table a candidate, the top bit
\* alone, and the largest.
RandSample ==
  (0 .. MaxRand) \cup {(211 * 211) % (2 ^ (Bits - 1)), Word \div 2, Word - 1}

\* Limbs of a free generator: zero, and two that between them make
\* candidates that pass the small-prime filter and bases that pass, fail
\* and hang the witness test.
LimbSample == {0, 4, 140}

\* Numbers typed at the prompt of check_input_hex.
InputSample ==
  (0 .. MaxInput) \cup {211 * 211, 2 ^ (WordBits - 1) + 3, Word - 1}

\* Arguments of the arithmetic functions: the smallest and the largest.
ArgSample == (0 .. MaxArg) \cup {Word - 1 - k : k \in 0 .. MaxArg}
BigArgSample == (0 .. MaxArg) \cup {BigWord - 1 - k : k \in 0 .. MaxArg}

\* Bases handed to a witness test called alone with modulus m: below m, and
\* at and above m, so that the reduction of the base runs.
WitnessBases(m, top) ==
  {q * m + k : q \in 0 .. MaxQuot, k \in 0 .. MaxArg} \cap (0 .. top - 1)

\* Moduli of miller_rabin_witness_1024 called alone.
BigModulusSample == (0 .. MaxBigInput) \cup {BigWord - 1 - k : k \in 0 .. MaxArg}

\* rand_ull() seeding the generator from the clock before it draws.
DrawUll_clock_seeded(state) ==
  IF state = Free THEN {[seed |-> Free, r |-> x] : x \in RandSample}
  ELSE {rand_ull_raw(now) : now \in 0 .. MaxNow}

\* One rand_ull() call: the raw value and the generator's next state.
DrawUll(state) ==
  IF state = Free THEN {[seed |-> Free, r |-> x] : x \in RandSample}
  ELSE {rand_ull_raw(state)}

\* One bigint_rand() call of a free generator: the first and the last limb
\* from the sample, any limb between them zero.
DrawBig ==
  { [k \in Limbs |-> IF k = 1 THEN lo ELSE IF k = WORDS_COUNT THEN hi ELSE 0] :
      lo \in LimbSample, hi \in LimbSample }

\* Arguments for is_probable_prime_1024 alone: small values, and the
\* candidates bigint_rand_odd_1024 makes of the sampled arrays.
BigInputSample ==
  (2 .. MaxBigInput) \cup {BigValue(bigint_rand_odd_1024(raw)) : raw \in DrawBig}

\* srand((unsigned)time(NULL) + attempts) at clock reading now.
srand_from_clock(state, now, att) ==
  IF state = Free THEN Free ELSE (now + att) % 65537

\* --------------------------------------------------------------- state
VARIABLES
  prog,       \* "native" or "big": the program running; "unit": one function
  pc,         \* where the program is
  n,          \* the candidate, or the number under test (bigints by value)
  attempts,   \* `attempts` of the search loop
  i,          \* rounds completed by the running primality call
  passed,     \* witnesses that passed in the running primality call
  all_pass,   \* `all_pass` of is_probable_prime_with_print
  r,          \* raw random value of the last witness draw
  a,          \* base handed to the last witness test
  iters,      \* subtractions made by the last bigint_rand_range call
  pass,       \* verdict of the last witness test
  ret,        \* value returned by the last primality call
  via,        \* which return statement produced ret
  draws,      \* random values drawn by the last primality call
  reseeded,   \* srand() was called by the running search
  seed,       \* state of the C library generator
  run1,       \* outcome of the first of two searches from one seed
  unit        \* the last function applied alone, its arguments and result

vars == << prog, pc, n, attempts, i, passed, all_pass, r, a, iters, pass, ret,
           via, draws, reseeded, seed, run1, unit >>

NoUnit == [op |-> "none", x |-> 0, y |-> 0, z |-> 0, res |-> 0, flag |-> FALSE]
NoRun == [done |-> FALSE, seed |-> 0, prime |-> 0, attempts |-> 0,
          reseeded |-> FALSE]

Blank ==
  /\ n = 0 /\ attempts = 0 /\ i = 0 /\ passed = 0 /\ all_pass = 1
  /\ r = 0 /\ a = 0 /\ iters = 0 /\ pass = 1 /\ ret = -1 /\ via = "none"
  /\ draws = 0 /\ reseeded = FALSE /\ unit = NoUnit

\* Both programs after main() has seeded the generator.
Init ==
  /\ prog \in {"native", "big"}
  /\ pc = IF prog = "native" THEN "menu" ELSE "big_search"
  /\ seed = Free /\ run1 = NoRun
  /\ Blank

\* What a primality call does before its first round: "lt2", "prime",
\* "composite", or "none" when the rounds are to run.
ipp_entry(m) == IF m < 2 THEN "lt2" ELSE sieve_scan(m, 1)

entry_ret(e) == IF e = "prime" THEN 1 ELSE 0

\* A search loop that also stops once the time budget is spent.
after_test_budget(result, late) ==
  IF result = 1 \/ late THEN "found" ELSE "search"

\* Where generate_30bit_prime goes once is_probable_prime has returned
\* result, the clock reading being late (more than 60 s) or not.
after_test(result, late) == IF result = 1 THEN "found" ELSE "search"

\* A rounds loop without the early return.
rounds_return_last(p, done) == done + 1 >= Rounds

\* Whether the rounds loop of is_probable_prime / is_probable_prime_1024
\* returns after a round with verdict p, done rounds having passed before:
\* at once on a failure, else after the last round.
rounds_return(p, done) == p = 0 \/ done + 1 >= Rounds

\* Whether the failed candidate makes generate_30bit_prime reseed.
reseed_due(result, late) == result = 0 /\ late

\* Whether the failed candidate makes generate_1024bit_prime reseed.
big_reseed_due(result, att) == result = 0 /\ att % ReseedEvery = 0

big_after_test(result) == IF result = 1 THEN "big_found" ELSE "big_search"

\* The clock readings an iteration can make: none unless it reaches the
\* reseed check.
ClockReadings == [late : BOOLEAN, now : 0 .. MaxNow]
ClockRead(checked) ==
  IF checked THEN ClockReadings ELSE {[late |-> FALSE, now |-> 0]}

\* ------------------------------------------------- the native program
\* main(): option 1, check_input_hex() on the number typed.
ChooseCheck ==
  /\ prog = "native" /\ pc = "menu"
  /\ \E m \in InputSample :
       LET pre == sieve_scan(m, 1)
           e   == ipp_entry(m)
       IN /\ n' = m
          /\ IF pre # "none"
               THEN /\ pc' = "menu" /\ ret' = entry_ret(pre) /\ via' = "filter"
               ELSE IF e # "none"
               THEN /\ pc' = "menu" /\ ret' = entry_ret(e)
                    /\ via' = IF e = "lt2" THEN "lt2" ELSE "sieve"
               ELSE /\ pc' = "print_rounds" /\ ret' = -1 /\ via' = "none"
  /\ i' = 0 /\ passed' = 0 /\ all_pass' = 1 /\ draws' = 0
  /\ r' = 0 /\ a' = 0 /\ pass' = 1 /\ attempts' = 0 /\ reseeded' = FALSE
  /\ UNCHANGED << prog, iters, seed, run1, unit >>

\* One iteration of the rounds loop of is_probable_prime_with_print; the
\* last one returns all_pass to check_input_hex, which prints the verdict.
PrintRound ==
  /\ prog = "native" /\ pc = "print_rounds"
  /\ \E d \in DrawUll(seed) :
     \E p \in {miller_rabin_witness(n, witness_base_print(n, d.r))} :
       LET base == witness_base_print(n, d.r)
           ap   == IF p = 0 THEN 0 ELSE all_pass
       IN /\ r' = d.r /\ a' = base /\ pass' = p /\ seed' = d.seed
          /\ all_pass' = ap
          /\ passed' = passed + p
          /\ i' = i + 1
          /\ IF i + 1 < Rounds
               THEN /\ pc' = "print_rounds" /\ UNCHANGED << ret, via >>
               ELSE /\ pc' = "menu" /\ ret' = ap /\ via' = "rounds"
  /\ draws' = draws + 1
  /\ UNCHANGED << prog, n, attempts, iters, reseeded, run1, unit >>

\* main(): option 2 enters generate_30bit_prime().
ChooseGenerate ==
  /\ prog = "native" /\ pc = "menu"
  /\ pc' = "search"
  /\ n' = 0 /\ attempts' = 0 /\ i' = 0 /\ passed' = 0 /\ all_pass' = 1
  /\ r' = 0 /\ a' = 0 /\ pass' = 1 /\ ret' = -1 /\ via' = "none"
  /\ draws' = 0 /\ reseeded' = FALSE
  /\ UNCHANGED << prog, iters, seed, run1, unit >>

\* main(): option 3.
ChooseExit ==
  /\ prog = "native" /\ pc = "menu"
  /\ pc' = "exit"
  /\ UNCHANGED << prog, n, attempts, i, passed, all_pass, r, a, iters, pass,
                  ret, via, draws, reseeded, seed, run1, unit >>

\* One iteration of the loop of generate_30bit_prime up to the first round
\* of is_probable_prime: count, generate, filter, and the call's opening.
SearchIterate ==
  /\ prog = "native" /\ pc = "search"
  /\ attempts < MaxAttempts
  /\ \E d \in DrawUll(seed) :
     \E cand \in gen_random_odd_outcomes(Bits, d.r) :
     \E e \in {ipp_entry(cand)} :
     \E t \in ClockRead(e \in {"lt2", "composite"}) :
       LET decided == ~search_divisible(cand) /\ e # "none"
           due == decided /\ reseed_due(entry_ret(e), t.late)
       IN /\ attempts' = attempts + 1
          /\ n' = cand
          /\ IF search_divisible(cand)
               THEN /\ pc' = "search" /\ UNCHANGED << ret, via >>
               ELSE IF e # "none"
               THEN /\ pc' = after_test(entry_ret(e), t.late)
                    /\ ret' = entry_ret(e)
                    /\ via' = IF e = "lt2" THEN "lt2" ELSE "sieve"
               ELSE /\ pc' = "rounds" /\ ret' = -1 /\ via' = "none"
          /\ seed' = IF due THEN srand_from_clock(d.seed, t.now, attempts + 1)
                     ELSE d.seed
          /\ reseeded' = (reseeded \/ due)
  /\ i' = 0 /\ passed' = 0 /\ draws' = 0 /\ r' = 0 /\ a' = 0 /\ pass' = 1
  /\ UNCHANGED << prog, all_pass, iters, run1, unit >>

\* One iteration of the rounds loop of is_probable_prime; when the call
\* returns, the rest of the caller's iteration: break, or the reseed check.
Round ==
  /\ prog \in {"native", "unit"} /\ pc = "rounds"
  /\ \E d \in DrawUll(seed) :
     \E p \in {miller_rabin_witness(n, witness_base(n, d.r))} :
     \E t \in ClockRead(p = 0 /\ prog = "native") :
       LET base   == witness_base(n, d.r)
           back   == rounds_return(p, i)
           result == IF p = 0 THEN 0 ELSE 1
           due    == back /\ prog = "native" /\ reseed_due(result, t.late)
       IN /\ r' = d.r /\ a' = base /\ pass' = p
          /\ passed' = passed + p
          /\ i' = IF p = 0 THEN i ELSE i + 1
          /\ IF back
               THEN /\ ret' = result /\ via' = "rounds"
                    /\ pc' = IF prog = "unit" THEN "returned"
                             ELSE after_test(result, t.late)
                    /\ unit' = IF prog = "unit"
                               THEN [unit EXCEPT !.res = result] ELSE unit
               ELSE /\ pc' = "rounds" /\ UNCHANGED << ret, via, unit >>
          /\ seed' = IF due THEN srand_from_clock(d.seed, t.now, attempts)
                     ELSE d.seed
          /\ reseeded' = (reseeded \/ due)
  /\ draws' = draws + 1
  /\ UNCHANGED << prog, n, attempts, all_pass, iters, run1 >>

\* generate_30bit_prime after its loop: print, save, return to the menu.
SavePrime ==
  /\ prog = "native" /\ pc = "found"
  /\ pc' = "menu"
  /\ UNCHANGED << prog, n, attempts, i, passed, all_pass, r, a, iters, pass,
                  ret, via, draws, reseeded, seed, run1, unit >>

\* -------------------------------------------- the multi-word program
\* One iteration of the loop of generate_1024bit_prime up to the first
\* round of is_probable_prime_1024.
BigSearchIterate ==
  /\ prog = "big" /\ pc = "big_search"
  /\ attempts < MaxAttempts
  /\ \E raw \in DrawBig :
     \E cand \in {bigint_rand_odd_1024(raw)} :
     \E e \in {big_sieve_scan(cand, 1)} :
     \E t \in ClockRead(e = "composite") :
       LET now  == t.now
           due  == ~big_search_divisible(cand) /\ e # "none"
                   /\ big_reseed_due(entry_ret(e), attempts + 1)
       IN /\ attempts' = attempts + 1
          /\ n' = BigValue(cand)
          /\ IF big_search_divisible(cand)
               THEN /\ pc' = "big_search" /\ UNCHANGED << ret, via >>
               ELSE IF e # "none"
               THEN /\ pc' = big_after_test(entry_ret(e))
                    /\ ret' = entry_ret(e) /\ via' = "sieve"
               ELSE /\ pc' = "big_rounds" /\ ret' = -1 /\ via' = "none"
          /\ seed' = IF due THEN srand_from_clock(seed, now, attempts + 1)
                     ELSE seed
          /\ reseeded' = (reseeded \/ due)
  /\ i' = 0 /\ passed' = 0 /\ draws' = 0 /\ r' = 0 /\ a' = 0 /\ pass' = 1
  /\ iters' = 0
  /\ UNCHANGED << prog, all_pass, run1, unit >>

\* One iteration of the rounds loop of is_probable_prime_1024; when the
\* call returns, the rest of the caller's iteration.  A call that never
\* returns leaves the program at "hang".
BigRound ==
  /\ prog \in {"big", "unit"} /\ pc = "big_rounds"
  /\ \E raw \in DrawBig :
     \E rr \in {bigint_rand_range(BigOf(n), raw)} :
     \E w \in {IF rr.hang THEN with_base(WitnessHang, rr.a)
                ELSE miller_rabin_witness_1024(BigOf(n), rr.a)} :
     \E t \in ClockRead(~w.hang /\ w.pass = 0 /\ prog = "big") :
       LET now    == t.now
           back   == rounds_return(w.pass, i)
           result == IF w.pass = 0 THEN 0 ELSE 1
           due    == back /\ prog = "big" /\ big_reseed_due(result, attempts)
       IN /\ r' = BigValue(raw)
          /\ IF rr.hang
               THEN /\ pc' = "hang" /\ via' = "bigint_rand_range"
                    /\ UNCHANGED << a, iters, pass, passed, i, ret, unit,
                                    seed, reseeded >>
               ELSE IF w.hang
               THEN /\ pc' = "hang" /\ via' = "miller_rabin_witness_1024"
                    /\ a' = BigValue(rr.a) /\ iters' = rr.iters
                    /\ UNCHANGED << pass, passed, i, ret, unit, seed,
                                    reseeded >>
               ELSE /\ a' = BigValue(rr.a) /\ iters' = rr.iters
                    /\ pass' = w.pass
                    /\ passed' = passed + w.pass
                    /\ i' = IF w.pass = 0 THEN i ELSE i + 1
                    /\ IF back
                         THEN /\ ret' = result /\ via' = "rounds"
                              /\ pc' = IF prog = "unit" THEN "returned"
                                       ELSE big_after_test(result)
                              /\ unit' = IF prog = "unit"
                                         THEN [unit EXCEPT !.res = result]
                                         ELSE unit
                         ELSE /\ pc' = "big_rounds"
                              /\ UNCHANGED << ret, via, unit >>
                    /\ seed' = IF due
                               THEN srand_from_clock(seed, now, attempts)
                               ELSE seed
                    /\ reseeded' = (reseeded \/ due)
  /\ draws' = draws + 1
  /\ UNCHANGED << prog, n, attempts, all_pass, run1 >>

\* generate_1024bit_prime on acceptance: print, save, return; main ends.
BigSave ==
  /\ prog = "big" /\ pc = "big_found"
  /\ pc' = "big_exit"
  /\ UNCHANGED << prog, n, attempts, i, passed, all_pass, r, a, iters, pass,
                  ret, via, draws, reseeded, seed, run1, unit >>

Next ==
  \/ ChooseCheck
  \/ PrintRound
  \/ ChooseGenerate
  \/ ChooseExit
  \/ SearchIterate
  \/ Round
  \/ SavePrime
  \/ BigSearchIterate
  \/ BigRound
  \/ BigSave

Spec == Init /\ [][Next]_vars

\* ------------------------------------------------ two searches, one seed
\* generate_30bit_prime() entered with the generator in a known state; a
\* second search from that state follows the first.
InitTwin ==
  /\ prog = "native" /\ pc = "search"
  /\ seed \in 0 .. MaxSeed
  /\ run1 = [NoRun EXCEPT !.seed = seed]
  /\ Blank

\* The first search has ended: keep its outcome, seed the generator as
\* before and search again.
TwinRestart ==
  /\ prog = "native" /\ pc = "found" /\ ~run1.done
  /\ run1' = [done |-> TRUE, seed |-> run1.seed, prime |-> n,
              attempts |-> attempts, reseeded |-> reseeded]
  /\ seed' = run1.seed
  /\ pc' = "search"
  /\ n' = 0 /\ attempts' = 0 /\ i' = 0 /\ passed' = 0
  /\ r' = 0 /\ a' = 0 /\ pass' = 1 /\ ret' = -1 /\ via' = "none"
  /\ draws' = 0 /\ reseeded' = FALSE
  /\ UNCHANGED << prog, all_pass, iters, unit >>

\* The second search has ended.
TwinDone ==
  /\ prog = "native" /\ pc = "found" /\ run1.done
  /\ pc' = "twin_done"
  /\ UNCHANGED << prog, n, attempts, i, passed, all_pass, r, a, iters, pass,
                  ret, via, draws, reseeded, seed, run1, unit >>

NextTwin ==
  \/ SearchIterate
  \/ Round
  \/ TwinRestart
  \/ TwinDone

SpecTwin == InitTwin /\ [][NextTwin]_vars

\* -------------------------------------------------- one function alone
\* One call of one function on sampled arguments, followed to its return.
InitUnit ==
  /\ prog = "unit" /\ pc = "idle"
  /\ seed = Free /\ run1 = NoRun
  /\ Blank

Applied(op, x, y, z, res, flag) ==
  [op |-> op, x |-> x, y |-> y, z |-> z, res |-> res, flag |-> flag]

Returned ==
  /\ pc' = "returned"
  /\ n' = 0 /\ i' = 0 /\ passed' = 0 /\ r' = 0 /\ a' = 0 /\ iters' = 0
  /\ pass' = 1 /\ ret' = -1 /\ via' = "none" /\ draws' = 0
  /\ UNCHANGED << prog, attempts, all_pass, reseeded, seed, run1 >>

CallMulmod ==
  /\ prog = "unit" /\ pc = "idle"
  /\ \E x \in ArgSample, y \in ArgSample, m \in ArgSample \ {0} :
       unit' = Applied("mulmod", x, y, m, mulmod(x, y, m),
                       mulmod_run(x, y, m).wrapped)
  /\ Returned

CallPowmod ==
  /\ prog = "unit" /\ pc = "idle"
  /\ \E x \in ArgSample, e \in ArgSample, m \in ArgSample \ {0} :
       unit' = Applied("powmod", x, e, m, powmod(x, e, m), FALSE)
  /\ Returned

\* flag: the call never returns.
CallBigModMul ==
  /\ prog = "unit" /\ pc = "idle"
  /\ \E x \in BigArgSample, y \in BigArgSample, m \in BigArgSample \ {0} :
     \E c \in {bigint_mod_mul(BigOf(x), BigOf(y), BigOf(m))} :
       unit' = Applied("bigint_mod_mul", x, y, m,
                       IF c = Hang THEN 0 ELSE BigValue(c), c = Hang)
  /\ Returned

CallBigModExp ==
  /\ prog = "unit" /\ pc = "idle"
  /\ \E x \in BigArgSample, e \in BigArgSample, m \in BigArgSample \ {0} :
     \E c \in {bigint_mod_exp(BigOf(x), BigOf(e), BigOf(m))} :
       unit' = Applied("bigint_mod_exp", x, e, m,
                       IF c = Hang THEN 0 ELSE BigValue(c), c = Hang)
  /\ Returned

CallGenRandomOdd ==
  /\ prog = "unit" /\ pc = "idle"
  /\ \E bits \in 0 .. WordBits, d \in DrawUll(seed) :
     \E v \in gen_random_odd_outcomes(bits, d.r) :
       unit' = Applied("gen_random_odd", bits, d.r, 0, v, FALSE)
  /\ Returned

CallBigRandOdd ==
  /\ prog = "unit" /\ pc = "idle"
  /\ \E raw \in DrawBig :
       unit' = Applied("bigint_rand_odd_1024", BigValue(raw), 0, 0,
                       BigValue(bigint_rand_odd_1024(raw)), FALSE)
  /\ Returned

\* is_probable_prime(m, Rounds) up to its first round.
CallIsProbablePrime ==
  /\ prog = "unit" /\ pc = "idle"
  /\ \E m \in InputSample :
     \E e \in {ipp_entry(m)} :
       /\ n' = m
       /\ unit' = Applied("is_probable_prime", m, Rounds, 0, entry_ret(e), FALSE)
       /\ IF e # "none"
            THEN /\ pc' = "returned" /\ ret' = entry_ret(e)
                 /\ via' = IF e = "lt2" THEN "lt2" ELSE "sieve"
            ELSE /\ pc' = "rounds" /\ ret' = -1 /\ via' = "none"
  /\ i' = 0 /\ passed' = 0 /\ r' = 0 /\ a' = 0 /\ iters' = 0
  /\ pass' = 1 /\ draws' = 0
  /\ UNCHANGED << prog, attempts, all_pass, reseeded, seed, run1 >>

\* is_probable_prime_1024(m, Rounds) up to its first round.
CallIsProbablePrime1024 ==
  /\ prog = "unit" /\ pc = "idle"
  /\ \E m \in BigInputSample :
     \E e \in {big_sieve_scan(BigOf(m), 1)} :
       /\ n' = m
       /\ unit' = Applied("is_probable_prime_1024", m, Rounds, 0,
                          entry_ret(e), FALSE)
       /\ IF e # "none"
            THEN /\ pc' = "returned" /\ ret' = entry_ret(e) /\ via' = "sieve"
            ELSE /\ pc' = "big_rounds" /\ ret' = -1 /\ via' = "none"
  /\ i' = 0 /\ passed' = 0 /\ r' = 0 /\ a' = 0 /\ iters' = 0
  /\ pass' = 1 /\ draws' = 0
  /\ UNCHANGED << prog, attempts, all_pass, reseeded, seed, run1 >>

\* miller_rabin_witness(m, b): both parameters are passed by value, the
\* caller's variables are what they were.
CallWitness ==
  /\ prog = "unit" /\ pc = "idle"
  /\ \E m \in InputSample \ {0, 1} :
     \E b \in WitnessBases(m, Word) :
       /\ unit' = Applied("miller_rabin_witness", m, b, 0,
                          miller_rabin_witness(m, b), FALSE)
       /\ n' = m /\ a' = b
  /\ pc' = "returned"
  /\ i' = 0 /\ passed' = 0 /\ r' = 0 /\ iters' = 0
  /\ pass' = 1 /\ ret' = -1 /\ via' = "none" /\ draws' = 0
  /\ UNCHANGED << prog, attempts, all_pass, reseeded, seed, run1 >>

\* miller_rabin_witness_1024(&m, &b) on the caller's objects m and b: after
\* the call n and a hold what the caller's objects hold, iters the number
\* of subtractions the reduction of the base made.  flag: the call never
\* returns.
CallBigWitness ==
  /\ prog = "unit" /\ pc = "idle"
  /\ \E m \in BigModulusSample :
     \E b \in WitnessBases(m, BigWord) :
     \E w \in {miller_rabin_witness_1024(BigOf(m), BigOf(b))} :
       /\ unit' = Applied("miller_rabin_witness_1024", m, b, 0,
                          w.pass, w.hang)
       /\ n' = m /\ a' = BigValue(w.a)
       /\ iters' = IF bigint_compare(BigOf(b), BigOf(m)) >= 0
                   THEN subtract_down(BigOf(b), BigOf(m), 0).iters ELSE 0
  /\ pc' = "returned"
  /\ i' = 0 /\ passed' = 0 /\ r' = 0
  /\ pass' = 1 /\ ret' = -1 /\ via' = "none" /\ draws' = 0
  /\ UNCHANGED << prog, attempts, all_pass, reseeded, seed, run1 >>

NextUnit ==
  \/ CallMulmod
  \/ CallPowmod
  \/ CallBigModMul
  \/ CallBigModExp
  \/ CallGenRandomOdd
  \/ CallBigRandOdd
  \/ CallIsProbablePrime
  \/ CallIsProbablePrime1024
  \/ CallWitness
  \/ CallBigWitness
  \/ Round
  \/ BigRound

SpecUnit == InitUnit /\ [][NextUnit]_vars

\* ================================================================ claims
\* The value 2^(bits-1) <= v < 2^bits, v odd.
ExactBitsOdd(v, bits) ==
  /\ bits >= 1
  /\ 2 ^ (bits - 1) <= v
  /\ v < 2 ^ bits
  /\ v % 2 = 1

TablePrimes == {small_primes[k] : k \in 1 .. small_primes_count}

HasTableFactor(m) == \E p \in TablePrimes : m % p = 0

\* C1: bigint_mod_mul(c, a, b, n) with n > 0 returns, and leaves
\* c = (a*b) mod n for the full product a*b, so c < n.
C1_ModMulFullProduct ==
  (pc = "returned" /\ unit.op = "bigint_mod_mul")
    => /\ ~unit.flag
       /\ unit.res = RefMulMod(unit.x, unit.y, unit.z)
       /\ unit.res < unit.z

\* C2: in mulmod(a, b, mod) with mod > 0 neither `res += a` nor `a <<= 1`
\* leaves the machine word, and the value returned is (a*b) mod mod.
C2_MulmodNoWrap ==
  (pc = "returned" /\ unit.op = "mulmod")
    => /\ ~unit.flag
       /\ unit.res = RefMulMod(unit.x, unit.y, unit.z)

\* C3: powmod(a, e, n) and bigint_mod_exp(c, a, e, n) with n >= 2 return
\* a^e mod n; for e = 0 that is 1.
C3_ModExp ==
  (pc = "returned" /\ unit.op \in {"powmod", "bigint_mod_exp"} /\ unit.z >= 2)
    => /\ ~unit.flag
       /\ unit.res = RefPowMod(unit.x, unit.y, unit.z)
       /\ (unit.y = 0 => unit.res = 1)

\* C4: is_probable_prime(n, rounds) returns 1 for every prime n whatever
\* the random draws; a witness test answers 0 only for a composite n.
C4_NoFalseNegative ==
  (prog = "unit" /\ unit.op = "is_probable_prime" /\ RefIsPrime(n))
    => /\ (pc = "returned" => ret = 1)
       /\ (draws > 0 => pass = 1)

\* C5: is_probable_prime and is_probable_prime_1024 report a prime of the
\* table as prime by exact match and a multiple of a table prime that is
\* no table prime as composite, in both cases before any random value is
\* drawn and before any round.
C5_SieveDecides ==
  (pc = "returned"
     /\ unit.op \in {"is_probable_prime", "is_probable_prime_1024"})
    => /\ (unit.x \in TablePrimes
             => ret = 1 /\ via = "sieve" /\ draws = 0 /\ i = 0)
       /\ (unit.x \notin TablePrimes /\ HasTableFactor(unit.x)
             => ret = 0 /\ via \in {"sieve", "lt2"} /\ draws = 0 /\ i = 0)

\* C5 happens: is_probable_prime_1024 classified a multiple of a table
\* prime that lies above the table.
C5_Witness ==
  /\ pc = "returned" /\ unit.op = "is_probable_prime_1024"
  /\ unit.x > small_primes[small_primes_count]
  /\ HasTableFactor(unit.x)
  /\ ret = 0 /\ draws = 0

\* C6: gen_random_odd(N) for N >= 2, and bigint_rand_odd_1024 for the full
\* width, return an odd value of exactly N bits.
C6_ExactBitsOdd ==
  /\ (pc = "returned" /\ unit.op = "gen_random_odd" /\ unit.x >= 2)
       => ExactBitsOdd(unit.res, unit.x)
  /\ (pc = "returned" /\ unit.op = "bigint_rand_odd_1024")
       => ExactBitsOdd(unit.res, BigBits)

\* C7 as stated: two searches from one seed end with the same prime and
\* the same attempt count, whatever the clock showed.
C7_SameSeedSameRun ==
  pc = "twin_done" => n = run1.prime /\ attempts = run1.attempts

\* C7: two searches from one seed, neither of which reached the srand()
\* call of its loop, end with the same prime and the same attempt count.
C7_SameRunUnlessReseeded ==
  (pc = "twin_done" /\ ~reseeded /\ ~run1.reseeded)
    => n = run1.prime /\ attempts = run1.attempts

\* C7 happens: two searches of several attempts each, without a reseed.
C7_Witness ==
  /\ pc = "twin_done" /\ ~reseeded /\ ~run1.reseeded
  /\ attempts >= 2 /\ run1.attempts >= 2

RoundPcs == {"rounds", "print_rounds", "big_rounds"}

\* A round of a driver at one of pcs: every witness drawn before passed; a
\* failure makes the driver return 0 at once, and it returns 1 only with
\* all Rounds witnesses passed.
ShortCircuits(pcs) ==
  (pc \in pcs /\ draws' = draws + 1)
    => /\ passed = draws
       /\ (pc' # "hang" /\ pass' = 0
             => ret' = 0 /\ via' = "rounds" /\ pc' \notin RoundPcs)
       /\ (pc' # "hang" /\ pc' \notin RoundPcs /\ pass' = 1
             => ret' = 1 /\ passed' = Rounds)

\* is_probable_prime_with_print runs every round and returns 1 exactly
\* when all witnesses passed.
PrintRunsAll ==
  (pc = "print_rounds" /\ draws' = draws + 1)
    => /\ (draws' < Rounds => pc' = "print_rounds")
       /\ (draws' = Rounds
             => /\ pc' = "menu"
                /\ ret' = IF passed' = Rounds THEN 1 ELSE 0)

\* C8 as stated: each of the three drivers returns composite at the first
\* failed witness, drawing nothing more, and returns prime only after all
\* rounds passed.
C8_ShortCircuitAll == [][ShortCircuits(RoundPcs)]_vars

\* C8: is_probable_prime and is_probable_prime_1024 return composite at
\* the first failed witness and prime only after all rounds passed;
\* is_probable_prime_with_print runs all its rounds and returns prime
\* exactly when every witness passed.
C8_ShortCircuitSilent ==
  [][ShortCircuits({"rounds", "big_rounds"}) /\ PrintRunsAll]_vars

\* C8 happens: is_probable_prime returned 0 on a failed witness before
\* its last round.
C8_Witness ==
  /\ prog = "native" /\ pc = "search" /\ via = "rounds"
  /\ ret = 0 /\ pass = 0 /\ draws >= 1 /\ draws < Rounds

C10_WitnessRange ==
  (prog \in {"native", "big"} /\ draws > 0)
    => /\ via # "bigint_rand_range"
       /\ a = (r % (n - 3)) + 2
       /\ 2 <= a /\ a <= n - 2

\* C10 happens: bigint_rand_range had to subtract n-3 from its raw value.
C10_Witness ==
  /\ prog = "big" /\ draws > 0 /\ iters >= 1
  /\ via # "bigint_rand_range" /\ a >= 2 /\ a <= n - 2

WitnessOps == {"miller_rabin_witness", "miller_rabin_witness_1024"}

\* C11: a witness test that returns leaves the caller's base a and modulus
\* n as they were, whatever the base, a >= n included; a base a >= n that
\* is a multiple of n passes.
C11_WitnessKeepsBase ==
  (pc = "returned" /\ unit.op \in WitnessOps /\ ~unit.flag)
    => /\ a = unit.y
       /\ n = unit.x
       /\ (unit.y >= unit.x /\ unit.y % unit.x = 0 => unit.res = 1)

\* C11, what the calls do: the modulus is kept and a base a >= n that is a
\* multiple of n passes;
\* the base is kept by miller_rabin_witness, and by
\* miller_rabin_witness_1024 when it is below n or a multiple of n;
\* otherwise the caller's base holds a mod n after the call.
C11_WitnessWritesReducedBase ==
  (pc = "returned" /\ unit.op \in WitnessOps /\ ~unit.flag)
    => /\ n = unit.x
       /\ (unit.y >= unit.x /\ unit.y % unit.x = 0 => unit.res = 1)
       /\ a = IF unit.op = "miller_rabin_witness_1024" /\ unit.y >= unit.x
                THEN (IF unit.y % unit.x = 0 THEN unit.y
                      ELSE unit.y % unit.x)
              ELSE unit.y

\* C11 happens: miller_rabin_witness_1024 returned from a call whose base
\* was at least n and no multiple of n, after subtracting n from it.
C11_Witness ==
  /\ pc = "returned" /\ unit.op = "miller_rabin_witness_1024" /\ ~unit.flag
  /\ unit.y >= unit.x /\ unit.y % unit.x # 0 /\ iters >= 1

=============================================================================
